---------------------------- MODULE Spec2Model ----------------------------
(***************************************************************************)
(* Model of js/validation.js (class FormValidator) together with the input *)
(* masks of js/masks.js.  A field value is a sequence of one-character     *)
(* strings; an error message is a string; the JavaScript value null is the *)
(* string null below.                                                      *)
(***************************************************************************)
EXTENDS Integers, Sequences, FiniteSets, TLC

(***************************************************************************)
(* JavaScript values and string primitives                                 *)
(***************************************************************************)
null == "<null>"

NaN == -1

Digits == {"0", "1", "2", "3", "4", "5", "6", "7", "8", "9"}

IsSpace(c) == c = " "

\* parseInt of a one-digit substring
DigitVal(c) ==
  CASE c = "0" -> 0 [] c = "1" -> 1 [] c = "2" -> 2 [] c = "3" -> 3
    [] c = "4" -> 4 [] c = "5" -> 5 [] c = "6" -> 6 [] c = "7" -> 7
    [] c = "8" -> 8 [] c = "9" -> 9

\* truthiness of a string: only the empty string is falsy
Truthy(v) == Len(v) > 0

\* truthiness of a validator's result: null and the empty message are falsy
IsError(e) == e # null /\ e # ""

\* value.replace(/\D/g, '')
StripNonDigits(v) == SelectSeq(v, LAMBDA c : c \in Digits)

RECURSIVE TrimLeft(_)
TrimLeft(v) ==
  IF Len(v) > 0 /\ IsSpace(Head(v)) THEN TrimLeft(Tail(v)) ELSE v

RECURSIVE TrimRight(_)
TrimRight(v) ==
  IF Len(v) > 0 /\ IsSpace(v[Len(v)])
    THEN TrimRight(SubSeq(v, 1, Len(v) - 1))
    ELSE v

\* value.trim()
Trim(v) == TrimRight(TrimLeft(v))

\* a non-empty run of [^\s@]
PlainRun(v, a, b) ==
  /\ a <= b
  /\ \A k \in a..b : ~IsSpace(v[k]) /\ v[k] # "@"

\* /^[^\s@]+@[^\s@]+\.[^\s@]+$/.test(value)
EmailRegexTest(v) ==
  \E i \in 1..Len(v) : \E j \in 1..Len(v) :
    /\ v[i] = "@"
    /\ v[j] = "."
    /\ PlainRun(v, 1, i - 1)
    /\ PlainRun(v, i + 1, j - 1)
    /\ PlainRun(v, j + 1, Len(v))

\* parseInt(s) of an attribute string: the leading decimal digits, NaN if none
RECURSIVE ParseIntAcc(_, _, _)
ParseIntAcc(s, acc, seen) ==
  IF Len(s) > 0 /\ Head(s) \in Digits
    THEN ParseIntAcc(Tail(s), acc * 10 + DigitVal(Head(s)), TRUE)
    ELSE IF seen THEN acc ELSE NaN

ParseInt(s) == ParseIntAcc(TrimLeft(s), 0, FALSE)

\* a < b in JavaScript where b may be NaN: a comparison with NaN is false
JsLess(a, b) == b # NaN /\ a < b

(***************************************************************************)
(* Messages of the built-in validators                                     *)
(***************************************************************************)
MsgEmail == "E-mail invalido. Verifique o formato."

MsgCpfLength == "CPF deve conter 11 digitos."

MsgCpfInvalid == "CPF invalido."

MsgTelefone == "Telefone deve conter 10 ou 11 digitos."

MsgCep == "CEP deve conter 8 digitos."

MsgNascAge == "Voce deve ter pelo menos 18 anos."

MsgNascFuture == "Data de nascimento nao pode ser no futuro."

MsgRequired == "Este campo e obrigatorio."

MsgEstado == "Por favor, selecione um estado."

MinLengthText(n) == IF n = NaN THEN "NaN" ELSE ToString(n)

MsgMinLength(n) ==
  "Este campo deve conter no minimo " \o MinLengthText(n) \o " caracteres."

(***************************************************************************)
(* Dates: new Date(value), new Date(), getFullYear() and the comparison of *)
(* two instants, at the granularity of a day.  A date-only string is read  *)
(* as midnight UTC; getFullYear() answers in local time.  The environment  *)
(* env holds the local calendar date of "now" (today), whether local time  *)
(* is behind UTC (west), and the UTC calendar date of "now" relative to    *)
(* the local one (utcAhead in -1..1 days).                                 *)
(***************************************************************************)
InvalidDate == [y |-> NaN, m |-> NaN, d |-> NaN]

IsLeap(y) == (y % 4 = 0 /\ y % 100 # 0) \/ y % 400 = 0

DaysInMonth(y, m) ==
  IF m = 2 THEN (IF IsLeap(y) THEN 29 ELSE 28)
  ELSE IF m \in {4, 6, 9, 11} THEN 30 ELSE 31

PrevDay(t) ==
  IF t.d > 1 THEN [t EXCEPT !.d = t.d - 1]
  ELSE IF t.m > 1 THEN [y |-> t.y, m |-> t.m - 1, d |-> DaysInMonth(t.y, t.m - 1)]
  ELSE [y |-> t.y - 1, m |-> 12, d |-> 31]

NextDay(t) ==
  IF t.d < DaysInMonth(t.y, t.m) THEN [t EXCEPT !.d = t.d + 1]
  ELSE IF t.m < 12 THEN [y |-> t.y, m |-> t.m + 1, d |-> 1]
  ELSE [y |-> t.y + 1, m |-> 1, d |-> 1]

DateLess(a, b) ==
  \/ a.y < b.y
  \/ a.y = b.y /\ a.m < b.m
  \/ a.y = b.y /\ a.m = b.m /\ a.d < b.d

AllDigits(v, a, b) == \A k \in a..b : v[k] \in Digits

Num2(v, a) == DigitVal(v[a]) * 10 + DigitVal(v[a + 1])

\* new Date(value) for a value of the shape YYYY-MM-DD; anything else is
\* an Invalid Date
ParseDate(v) ==
  IF /\ Len(v) = 10
     /\ AllDigits(v, 1, 4) /\ v[5] = "-"
     /\ AllDigits(v, 6, 7) /\ v[8] = "-"
     /\ AllDigits(v, 9, 10)
    THEN LET y == Num2(v, 1) * 100 + Num2(v, 3)
             m == Num2(v, 6)
             d == Num2(v, 9)
         IN IF m \in 1..12 /\ d >= 1 /\ d <= DaysInMonth(y, m)
              THEN [y |-> y, m |-> m, d |-> d]
              ELSE InvalidDate
    ELSE InvalidDate

\* birthDate.getFullYear(): the local year of midnight UTC of the date
BirthFullYear(b, e) ==
  IF b = InvalidDate THEN NaN
  ELSE IF e.west THEN PrevDay(b).y ELSE b.y

\* the UTC calendar date of "now"
UtcToday(e) ==
  IF e.utcAhead = 1 THEN NextDay(e.today)
  ELSE IF e.utcAhead = 0 - 1 THEN PrevDay(e.today)
  ELSE e.today

\* birthDate > today: midnight UTC of the date is after "now"
BirthAfterNow(b, e) == b # InvalidDate /\ DateLess(UtcToday(e), b)

(***************************************************************************)
(* registerDefaultValidators: the rules of the registry                    *)
(***************************************************************************)
EmailValidator(value) ==
  IF Truthy(value) /\ ~EmailRegexTest(value) THEN MsgEmail ELSE null

\* /^(\d)\1{10}$/.test(cpf)
AllSameDigit(cpf) ==
  /\ Len(cpf) = 11
  /\ \A k \in 1..11 : cpf[k] \in Digits /\ cpf[k] = cpf[1]

RECURSIVE WeightedSum(_, _, _)
\* sum of parseInt(cpf.substring(i-1, i)) * (top - i) for i = 1..n
WeightedSum(cpf, n, top) ==
  IF n = 0 THEN 0
  ELSE WeightedSum(cpf, n - 1, top) + DigitVal(cpf[n]) * (top - n)

\* the check digit without the replacement of a remainder of 10 or 11 by 0
CheckDigitRaw(cpf, n, top) == (WeightedSum(cpf, n, top) * 10) % 11

CheckDigit(cpf, n, top) ==
  LET remainder == (WeightedSum(cpf, n, top) * 10) % 11
  IN IF remainder = 10 \/ remainder = 11 THEN 0 ELSE remainder

\* the cpf rule without the test for eleven identical digits
CpfWithoutRepeatTest(value) ==
  IF ~Truthy(value) THEN null
  ELSE LET cpf == StripNonDigits(value)
       IN IF Len(cpf) # 11 THEN MsgCpfLength
          ELSE IF CheckDigit(cpf, 9, 11) # DigitVal(cpf[10]) THEN MsgCpfInvalid
          ELSE IF CheckDigit(cpf, 10, 12) # DigitVal(cpf[11]) THEN MsgCpfInvalid
          ELSE null

CpfValidator(value) ==
  IF ~Truthy(value) THEN null
  ELSE LET cpf == StripNonDigits(value)
       IN IF Len(cpf) # 11 THEN MsgCpfLength
          ELSE IF AllSameDigit(cpf) THEN MsgCpfInvalid
          ELSE IF CheckDigit(cpf, 9, 11) # DigitVal(cpf[10]) THEN MsgCpfInvalid
          ELSE IF CheckDigit(cpf, 10, 12) # DigitVal(cpf[11]) THEN MsgCpfInvalid
          ELSE null

\* the telefone rule without the early return on an empty value
TelefoneUnguarded(value) ==
  LET phone == StripNonDigits(value)
  IN IF Len(phone) < 10 \/ Len(phone) > 11 THEN MsgTelefone ELSE null

TelefoneValidator(value) ==
  IF ~Truthy(value) THEN null
  ELSE LET phone == StripNonDigits(value)
       IN IF Len(phone) < 10 \/ Len(phone) > 11 THEN MsgTelefone ELSE null

\* the cep rule without the early return on an empty value
CepUnguarded(value) ==
  LET cep == StripNonDigits(value)
  IN IF Len(cep) # 8 THEN MsgCep ELSE null

CepValidator(value) ==
  IF ~Truthy(value) THEN null
  ELSE LET cep == StripNonDigits(value)
       IN IF Len(cep) # 8 THEN MsgCep ELSE null

NascValidator(value, e) ==
  IF ~Truthy(value) THEN null
  ELSE LET birthDate == ParseDate(value)
           birthYear == BirthFullYear(birthDate, e)
           age       == e.today.y - birthYear
       IN IF birthYear # NaN /\ age < 18 THEN MsgNascAge
          ELSE IF BirthAfterNow(birthDate, e) THEN MsgNascFuture
          ELSE null

\* the minlength rule without its guard on the empty value
MinLengthUnguarded(value, minLength) ==
  IF JsLess(Len(value), minLength) THEN MsgMinLength(minLength) ELSE null

MinLengthValidator(value, minLength) ==
  IF Truthy(value) /\ JsLess(Len(value), minLength)
    THEN MsgMinLength(minLength)
    ELSE null

RequiredValidator(value) ==
  IF ~Truthy(value) \/ Trim(value) = <<>> THEN MsgRequired ELSE null

EstadoValidator(value) ==
  IF ~Truthy(value) \/ value = <<>> THEN MsgEstado ELSE null

(***************************************************************************)
(* The form.  A form is the sequence, in document order, of its input,     *)
(* select and textarea elements.  Each element carries its id, its type    *)
(* (field.type || field.tagName.toLowerCase()), the required attribute,    *)
(* the minlength attribute (a string, when present), its parent element    *)
(* and its default value.  Identifiers are unique within a form.           *)
(***************************************************************************)
Field(id, type, required, hasMinlength, minlength, parent) ==
  [id |-> id, type |-> type, required |-> required,
   hasMinlength |-> hasMinlength, minlength |-> minlength,
   parent |-> parent, defaultValue |-> <<>>]

FieldIds(frm) == {frm[i].id : i \in 1..Len(frm)}

Containers(frm) == {frm[i].parent : i \in 1..Len(frm)}

FieldById(frm, id) == frm[CHOOSE i \in 1..Len(frm) : frm[i].id = id]

(***************************************************************************)
(* The error state the validator owns and shows: this.errors (a Map, here  *)
(* a function whose domain is the set of keys), each field's is-invalid    *)
(* class and aria-invalid attribute, the .form-field__error nodes of each  *)
(* container in document order (a node is its text), and the containers    *)
(* carrying the class form-field--error.                                   *)
(***************************************************************************)
MapSet(map, k, v) == [x \in DOMAIN map \cup {k} |-> IF x = k THEN v ELSE map[x]]

MapDelete(map, k) == [x \in DOMAIN map \ {k} |-> map[x]]

EmptyMap == [x \in {} |-> ""]

\* parent.querySelector('.form-field__error') followed by remove(): the
\* first error node of the container, if any, leaves the document
RemoveFirstNode(nodes) == IF Len(nodes) > 0 THEN Tail(nodes) ELSE nodes

\* showFieldError without the removal of the previous error node
ShowKeepsOldNode(st, registered, frm, fieldId, message) ==
  IF fieldId \notin registered THEN st
  ELSE LET parent == FieldById(frm, fieldId).parent
       IN [errors   |-> MapSet(st.errors, fieldId, message),
           invalid  |-> st.invalid \cup {fieldId},
           aria     |-> [st.aria EXCEPT ![fieldId] = "true"],
           nodes    |-> [st.nodes EXCEPT ![parent] = Append(@, message)],
           cflag    |-> st.cflag \cup {parent}]

\* showFieldError with this.errors.set ahead of the test of the field
ShowSetsMapFirst(st, registered, frm, fieldId, message) ==
  IF fieldId \notin registered
    THEN [st EXCEPT !.errors = MapSet(st.errors, fieldId, message)]
  ELSE LET parent == FieldById(frm, fieldId).parent
       IN [errors   |-> MapSet(st.errors, fieldId, message),
           invalid  |-> st.invalid \cup {fieldId},
           aria     |-> [st.aria EXCEPT ![fieldId] = "true"],
           nodes    |-> [st.nodes EXCEPT
                           ![parent] = Append(RemoveFirstNode(@), message)],
           cflag    |-> st.cflag \cup {parent}]

showFieldError(st, registered, frm, fieldId, message) ==
  IF fieldId \notin registered THEN st
  ELSE LET parent == FieldById(frm, fieldId).parent
       IN [errors   |-> MapSet(st.errors, fieldId, message),
           invalid  |-> st.invalid \cup {fieldId},
           aria     |-> [st.aria EXCEPT ![fieldId] = "true"],
           nodes    |-> [st.nodes EXCEPT
                           ![parent] = Append(RemoveFirstNode(@), message)],
           cflag    |-> st.cflag \cup {parent}]

\* clearFieldError without this.errors.delete(fieldId)
ClearKeepsMapEntry(st, registered, frm, fieldId) ==
  IF fieldId \notin registered THEN st
  ELSE LET parent == FieldById(frm, fieldId).parent
       IN [errors   |-> st.errors,
           invalid  |-> st.invalid \ {fieldId},
           aria     |-> [st.aria EXCEPT ![fieldId] = "false"],
           nodes    |-> [st.nodes EXCEPT ![parent] = RemoveFirstNode(@)],
           cflag    |-> st.cflag \ {parent}]

\* clearFieldError that leaves the error node in the container
ClearKeepsNode(st, registered, frm, fieldId) ==
  IF fieldId \notin registered THEN st
  ELSE LET parent == FieldById(frm, fieldId).parent
       IN [errors   |-> MapDelete(st.errors, fieldId),
           invalid  |-> st.invalid \ {fieldId},
           aria     |-> [st.aria EXCEPT ![fieldId] = "false"],
           nodes    |-> st.nodes,
           cflag    |-> st.cflag \ {parent}]

clearFieldError(st, registered, frm, fieldId) ==
  IF fieldId \notin registered THEN st
  ELSE LET parent == FieldById(frm, fieldId).parent
       IN [errors   |-> MapDelete(st.errors, fieldId),
           invalid  |-> st.invalid \ {fieldId},
           aria     |-> [st.aria EXCEPT ![fieldId] = "false"],
           nodes    |-> [st.nodes EXCEPT ![parent] = RemoveFirstNode(@)],
           cflag    |-> st.cflag \ {parent}]

(***************************************************************************)
(* validateField and validateForm                                          *)
(***************************************************************************)
\* the rule selected by the field's type and id (lines 213-227)
KindError(field, value, e) ==
  IF field.type = "email" THEN EmailValidator(value)
  ELSE IF field.id = "cpf" THEN CpfValidator(value)
  ELSE IF field.id = "telefone" THEN TelefoneValidator(value)
  ELSE IF field.id = "cep" THEN CepValidator(value)
  ELSE IF field.id = "nasc" THEN NascValidator(value, e)
  ELSE IF field.id = "estado" THEN EstadoValidator(value)
  ELSE null

\* the required check (lines 204-209)
RequiredError(field, value) ==
  IF field.required /\ IsError(RequiredValidator(value))
    THEN RequiredValidator(value)
    ELSE null

\* validateField with the minlength rule ahead of the kind rule
ErrorMinLengthFirst(field, value, e) ==
  LET error1 == RequiredError(field, value)
  IN IF ~IsError(error1) /\ Truthy(value)
       THEN LET error3 == IF field.hasMinlength
                            THEN MinLengthValidator(value, ParseInt(field.minlength))
                            ELSE null
            IN IF IsError(error3) THEN error3 ELSE KindError(field, value, e)
       ELSE error1

\* the value of the local variable error at line 236
\* validateField with the minlength rule outside the test of the value,
\* so that it also runs on an empty value
ErrorMinLengthOnEmpty(field, value, e) ==
  LET error1 == RequiredError(field, value)
      error2 == IF ~IsError(error1) /\ Truthy(value)
                  THEN KindError(field, value, e)
                  ELSE error1
  IN IF ~IsError(error2) /\ field.hasMinlength
       THEN MinLengthUnguarded(value, ParseInt(field.minlength))
       ELSE error2

\* validateField with the kind rule run on an empty value as well
ErrorKindOnEmpty(field, value, e) ==
  LET error1 == RequiredError(field, value)
  IN IF ~IsError(error1)
       THEN LET error2 == KindError(field, value, e)
            IN IF ~IsError(error2) /\ Truthy(value) /\ field.hasMinlength
                 THEN MinLengthValidator(value, ParseInt(field.minlength))
                 ELSE error2
       ELSE error1

FieldError(field, value, e) ==
  LET error1 == RequiredError(field, value)
  IN IF ~IsError(error1) /\ Truthy(value)
       THEN LET error2 == KindError(field, value, e)
            IN IF ~IsError(error2) /\ field.hasMinlength
                 THEN MinLengthValidator(value, ParseInt(field.minlength))
                 ELSE error2
       ELSE error1

\* validateField that shows a failure but never clears after a success
ValidateNeverClears(st, registered, frm, field, value, e) ==
  LET error == FieldError(field, value, e)
  IN IF IsError(error)
       THEN [ok |-> FALSE, st |-> showFieldError(st, registered, frm, field.id, error)]
       ELSE [ok |-> TRUE, st |-> st]

\* validateField(field): the returned boolean and the error state it leaves
validateField(st, registered, frm, field, value, e) ==
  LET error == FieldError(field, value, e)
  IN IF IsError(error)
       THEN [ok |-> FALSE, st |-> showFieldError(st, registered, frm, field.id, error)]
       ELSE [ok |-> TRUE, st |-> clearFieldError(st, registered, frm, field.id)]

RECURSIVE ValidateUpTo(_, _, _, _, _, _)
\* the forEach of validateForm over the first n elements of the form
ValidateUpTo(st, registered, frm, values, e, n) ==
  IF n = 0 THEN [ok |-> TRUE, st |-> st]
  ELSE LET before == ValidateUpTo(st, registered, frm, values, e, n - 1)
           this   == validateField(before.st, registered, frm, frm[n],
                                   values[frm[n].id], e)
       IN [ok |-> before.ok /\ this.ok, st |-> this.st]

\* validateForm stopping at the first field that fails
RECURSIVE ValidateShortCircuit(_, _, _, _, _, _)
ValidateShortCircuit(st, registered, frm, values, e, n) ==
  IF n = 0 THEN [ok |-> TRUE, st |-> st]
  ELSE LET before == ValidateShortCircuit(st, registered, frm, values, e, n - 1)
       IN IF ~before.ok THEN before
          ELSE validateField(before.st, registered, frm, frm[n],
                             values[frm[n].id], e)

FormShortCircuit(st, registered, frm, values, e) ==
  ValidateShortCircuit(st, registered, frm, values, e, Len(frm))

\* isValid overwritten by each field instead of accumulated
FormLastFieldOnly(st, registered, frm, values, e) ==
  LET r == ValidateUpTo(st, registered, frm, values, e, Len(frm))
  IN [ok |-> ~IsError(FieldError(frm[Len(frm)], values[frm[Len(frm)].id], e)),
      st |-> r.st]

\* validateForm answering true whatever the fields say
FormAlwaysValid(st, registered, frm, values, e) ==
  [ok |-> TRUE, st |-> ValidateUpTo(st, registered, frm, values, e, Len(frm)).st]

validateForm(st, registered, frm, values, e) ==
  ValidateUpTo(st, registered, frm, values, e, Len(frm))

(***************************************************************************)
(* js/masks.js: the document-level input listener that rewrites the value  *)
(* of #cpf, #telefone and #cep                                             *)
(***************************************************************************)
Take(v, n) == SubSeq(v, 1, IF Len(v) < n THEN Len(v) ELSE n)

Drop(v, n) == SubSeq(v, n + 1, Len(v))

MaskCpf(value) ==
  LET v == Take(StripNonDigits(value), 11)
      n == Len(v)
  IN IF n <= 3 THEN v
     ELSE IF n <= 6 THEN Take(v, 3) \o <<".">> \o Drop(v, 3)
     ELSE IF n <= 9
       THEN Take(v, 3) \o <<".">> \o SubSeq(v, 4, 6) \o <<".">> \o Drop(v, 6)
     ELSE Take(v, 3) \o <<".">> \o SubSeq(v, 4, 6) \o <<".">>
            \o SubSeq(v, 7, 9) \o <<"-">> \o Drop(v, 9)

MaskTelefone(value) ==
  LET v == Take(StripNonDigits(value), 11)
      n == Len(v)
  IN IF n <= 10
       THEN IF n < 6 THEN v
            ELSE IF n = 6
              THEN <<"(">> \o Take(v, 2) \o <<")", " ">> \o SubSeq(v, 3, 6)
            ELSE <<"(">> \o Take(v, 2) \o <<")", " ">> \o SubSeq(v, 3, 6)
                   \o <<"-">> \o Drop(v, 6)
       ELSE <<"(">> \o Take(v, 2) \o <<")", " ">> \o SubSeq(v, 3, 7)
              \o <<"-">> \o Drop(v, 7)

MaskCep(value) ==
  LET v == Take(StripNonDigits(value), 8)
  IN IF Len(v) <= 5 THEN v ELSE Take(v, 5) \o <<"-">> \o Drop(v, 5)

\* the value the element holds once the input event has been dispatched
Masked(id, value) ==
  IF id = "cpf" THEN MaskCpf(value)
  ELSE IF id = "telefone" THEN MaskTelefone(value)
  ELSE IF id = "cep" THEN MaskCep(value)
  ELSE value

(***************************************************************************)
(* The submission store: localStorage, a function from the keys present to *)
(* their items.  JSON.stringify and JSON.parse are inverse on the records  *)
(* stored here (strings and a timestamp), so an item is kept parsed.       *)
(***************************************************************************)
HistoryCap == 10

FormName == "cadastroForm"

SubmissionsKey == FormName \o "-submissions"

CurrentKey == FormName \o "-current"

\* JSON.parse(localStorage.getItem(key)) || []
StoredSubmissions(store) ==
  IF SubmissionsKey \in DOMAIN store THEN store[SubmissionsKey] ELSE <<>>

\* { ...data, timestamp: timestamp }
WithTimestamp(data, timestamp) ==
  [k \in DOMAIN data \cup {"timestamp"} |->
     IF k = "timestamp" THEN timestamp ELSE data[k]]

\* submissions.slice(-10) when submissions.length > 10
LastTen(submissions) ==
  IF Len(submissions) > HistoryCap
    THEN SubSeq(submissions, Len(submissions) - HistoryCap + 1, Len(submissions))
    ELSE submissions

\* submissions.slice(0, 10): the newest entries dropped instead
KeepFirstTen(submissions) ==
  IF Len(submissions) > HistoryCap
    THEN SubSeq(submissions, 1, HistoryCap)
    ELSE submissions

Truncate(submissions) == LastTen(submissions)

\* saveFormData without its last statement, the write of the snapshot
SaveWithoutSnapshot(store, data, timestamp) ==
  LET submissions == Truncate(Append(StoredSubmissions(store),
                                     WithTimestamp(data, timestamp)))
  IN MapSet(store, SubmissionsKey, submissions)

saveFormData(store, data, timestamp) ==
  LET submissions == Truncate(Append(StoredSubmissions(store),
                                     WithTimestamp(data, timestamp)))
  IN MapSet(MapSet(store, SubmissionsKey, submissions), CurrentKey, data)

\* getSubmissionHistory()
getSubmissionHistory(store) == StoredSubmissions(store)

\* localStorage.clear() in the place of removeItem(storageKey)
ClearWholeStore(store) == [x \in {} |-> <<>>]

\* clearSubmissionHistory(): localStorage.removeItem(storageKey)
clearSubmissionHistory(store) == MapDelete(store, SubmissionsKey)

(***************************************************************************)
(* The forms and the values typed into them                                *)
(***************************************************************************)
MaxSubmits == 1

NoAttr == <<>>

TextValues == {<<>>, <<" ">>, <<"a", "b">>, <<"a", "b", "c">>}

EmailValues == {<<>>, <<"a", "b">>, <<"a", "@", "b", ".", "c">>}

CepValues == {<<>>, <<"1", "2", "3", "4">>, <<"1", "2", "3", "4", "5", "6", "7", "8">>}

CpfValues == {<<>>, <<"1", "2", "3">>, <<"1", "1", "1", "1", "1", "1", "1", "1", "1", "1", "1">>, <<"5", "2", "9", "9", "8", "2", "2", "4", "7", "2", "5">>}

TelefoneValues == {<<>>, <<"1", "1", "9">>, <<"1", "1", "9", "1", "2", "3", "4", "5", "6", "7">>, <<"1", "1", "9", "1", "2", "3", "4", "5", "6", "7", "8">>}

NascValues == {<<>>, <<"2", "0", "0", "0", "-", "0", "1", "-", "0", "1">>, <<"2", "0", "1", "5", "-", "0", "6", "-", "1", "5">>}

EstadoValues == {<<>>, <<"S", "P">>, <<"A", "c", "r", "e">>}

\* what a user can enter into a field, before any mask is applied
Typed(field) ==
  IF field.type = "email" THEN EmailValues
  ELSE IF field.id = "cpf" THEN CpfValues
  ELSE IF field.id = "telefone" THEN TelefoneValues
  ELSE IF field.id = "cep" THEN CepValues
  ELSE IF field.id = "nasc" THEN NascValues
  ELSE IF field.id = "estado" THEN EstadoValues
  ELSE TextValues

\* a registration form of three fields, each in a container of its own
FormOwnContainers ==
  << Field("nome", "text", TRUE, TRUE, <<"3">>, "divNome"),
     Field("email", "email", TRUE, FALSE, NoAttr, "divEmail"),
     Field("cep", "text", FALSE, FALSE, NoAttr, "divCep") >>

\* the same form with the last two fields side by side in one container
FormSharedContainer ==
  << Field("nome", "text", TRUE, TRUE, <<"3">>, "divNome"),
     Field("email", "email", TRUE, FALSE, NoAttr, "divRow"),
     Field("cep", "text", FALSE, FALSE, NoAttr, "divRow") >>

KindFields ==
  { <<"nome", "text">>, <<"contato", "email">>, <<"cpf", "text">>,
    <<"telefone", "tel">>, <<"cep", "text">>, <<"nasc", "date">>,
    <<"estado", "select-one">> }

MinlengthAttrs == { <<FALSE, NoAttr>>, <<TRUE, <<"0">> >>, <<TRUE, <<"3">> >> }

\* every form of one field: each kind, required or not, each minlength
SingleFieldForms ==
  { << Field(k[1], k[2], r, a[1], a[2], "divField") >> :
      k \in KindFields, r \in BOOLEAN, a \in MinlengthAttrs }

Forms == {FormOwnContainers, FormSharedContainer} \cup SingleFieldForms

Env0 ==
  [today |-> [y |-> 2026, m |-> 11, d |-> 1], west |-> TRUE, utcAhead |-> 0]

Defaults(frm) == [id \in FieldIds(frm) |-> FieldById(frm, id).defaultValue]

\* the values a user can leave the form with
Reachable(frm) ==
  [id \in FieldIds(frm) |->
     {FieldById(frm, id).defaultValue}
       \cup {Masked(id, raw) : raw \in Typed(FieldById(frm, id))}]

AllValid(frm, values, e) ==
  \A i \in 1..Len(frm) : ~IsError(FieldError(frm[i], values[frm[i].id], e))

ValidDatas(frm, e) ==
  {d \in [FieldIds(frm) -> UNION {Reachable(frm)[id] : id \in FieldIds(frm)}] :
     /\ \A id \in FieldIds(frm) : d[id] \in Reachable(frm)[id]
     /\ AllValid(frm, d, e)}

\* a history left by n accepted submissions of an earlier page view
EarlierHistory(data, n) == [t \in 1..n |-> WithTimestamp(data, t)]

\* what localStorage may hold when the page is loaded: nothing, or a full
\* history and the snapshot of its last submission
EarlierStores(frm, e) ==
  {[x \in {} |-> <<>>]}
    \cup (IF ValidDatas(frm, e) = {} THEN {}
          ELSE LET data == CHOOSE d \in ValidDatas(frm, e) : TRUE
               IN {MapSet(MapSet([x \in {} |-> <<>>], SubmissionsKey,
                                 EarlierHistory(data, HistoryCap)),
                          CurrentKey, data)})

Clock0 == HistoryCap + 1

\* loadFormData(): the saved snapshot, if any, prefills the registered fields
loadFormData(store, registered, values) ==
  IF CurrentKey \in DOMAIN store
    THEN [id \in DOMAIN values |->
            IF id \in DOMAIN store[CurrentKey] /\ id \in registered
              THEN store[CurrentKey][id]
              ELSE values[id]]
    ELSE values

(***************************************************************************)
(* State                                                                   *)
(***************************************************************************)
VARIABLES
  form,      \* the elements of this.form, in document order
  env,       \* the clock and time zone the page runs in
  fields,    \* this.fields: the identifiers registered by the constructor
  value,     \* each element's current value
  errors,    \* this.errors
  invalid,   \* the elements carrying the class is-invalid
  aria,      \* each element's aria-invalid attribute
  nodes,     \* each container's .form-field__error nodes, in document order
  cflag,     \* the containers carrying the class form-field--error
  storage,   \* localStorage
  clock,     \* the reading new Date() gives next
  banners,   \* the success banners in the document
  timers,    \* the pending setTimeout callbacks, by the banner they remove
  pc,        \* where the submit listener stands
  last,      \* the event handled last: its kind, its field and its result
  saved,     \* every record handed to localStorage so far, oldest first
  returned   \* what the last call of a method of the validator returned

vars ==
  << form, env, fields, value, errors, invalid, aria, nodes, cflag,
     storage, clock, banners, timers, pc, last, saved, returned >>

\* the error state as the operators above take it
Disp ==
  [errors |-> errors, invalid |-> invalid, aria |-> aria,
   nodes |-> nodes, cflag |-> cflag]

SetDisp(st) ==
  /\ errors' = st.errors
  /\ invalid' = st.invalid
  /\ aria' = st.aria
  /\ nodes' = st.nodes
  /\ cflag' = st.cflag

Event(op, id, ok) == [op |-> op, field |-> id, ok |-> ok]

\* a method without a return statement returns undefined
Undefined == [defined |-> FALSE, value |-> <<>>]

Returned(v) == [defined |-> TRUE, value |-> v]

\* new FormValidator('#cadastroForm') followed by loadFormData()
InitWith(frm, e) ==
  /\ form = frm
  /\ env = e
  /\ fields = FieldIds(frm)
  /\ storage \in EarlierStores(frm, e)
  /\ value = loadFormData(storage, FieldIds(frm), Defaults(frm))
  /\ errors = EmptyMap
  /\ invalid = {}
  /\ aria = [id \in FieldIds(frm) |-> "absent"]
  /\ nodes = [c \in Containers(frm) |-> <<>>]
  /\ cflag = {}
  /\ clock = Clock0
  /\ banners = {}
  /\ timers = {}
  /\ pc = "idle"
  /\ last = Event("load", "", TRUE)
  /\ saved = StoredSubmissions(storage)
  /\ returned = Undefined

Init == \E frm \in Forms : InitWith(frm, Env0)

(***************************************************************************)
(* Events                                                                  *)
(***************************************************************************)
\* the input listeners: the validator's (lines 173-177), then the mask's;
\* the event's result is that of this.errors.has(input.id)
Input(i, raw) ==
  /\ pc = "idle"
  /\ LET id == form[i].id
     IN /\ SetDisp(IF id \in DOMAIN errors
                     THEN clearFieldError(Disp, fields, form, id)
                     ELSE Disp)
        /\ value' = [value EXCEPT ![id] = Masked(id, raw)]
        /\ last' = Event("input", id, id \in DOMAIN errors)
  /\ UNCHANGED << form, env, fields, storage, clock, banners, timers, pc, saved,
                  returned >>

\* the blur listener (lines 168-170)
Blur(i) ==
  /\ pc = "idle"
  /\ LET id == form[i].id
         r  == validateField(Disp, fields, form, form[i], value[id], env)
     IN /\ SetDisp(r.st)
        /\ last' = Event("blur", id, r.ok)
  /\ UNCHANGED << form, env, fields, value, storage, clock, banners, timers,
                  pc, saved, returned >>

\* the submit listener up to the return of validateForm (lines 184-187),
\* for the first n submissions a page view accepts
SubmitUpTo(n) ==
  /\ pc = "idle"
  /\ clock < Clock0 + n
  /\ LET r == validateForm(Disp, fields, form, value, env)
     IN /\ SetDisp(r.st)
        /\ pc' = IF r.ok THEN "handleValid" ELSE "idle"
        /\ last' = Event("submit", "", r.ok)
  /\ UNCHANGED << form, env, fields, value, storage, clock, banners, timers,
                  saved, returned >>

Submit == SubmitUpTo(MaxSubmits)

\* handleValidFormSubmit (lines 322-338), which ends the submit listener
HandleValidFormSubmit ==
  /\ pc = "handleValid"
  /\ storage' = saveFormData(storage, value, clock)
  /\ clock' = clock + 1
  /\ banners' = banners \cup {clock}
  /\ timers' = timers \cup {clock}
  /\ value' = Defaults(form)
  /\ errors' = EmptyMap
  /\ pc' = "idle"
  /\ last' = Event("saved", "", TRUE)
  /\ saved' = Append(saved, WithTimestamp(value, clock))
  /\ UNCHANGED << form, env, fields, invalid, aria, nodes, cflag, returned >>

\* the setTimeout callback of showSuccessMessage (lines 385-387)
\* a timer callback that removes every banner of the document
TimeoutRemovesAll(b) ==
  /\ pc = "idle"
  /\ b \in timers
  /\ timers' = timers \ {b}
  /\ banners' = {}
  /\ last' = Event("timeout", "", TRUE)
  /\ UNCHANGED << form, env, fields, value, errors, invalid, aria, nodes,
                  cflag, storage, clock, pc, saved, returned >>

\* the callback of setTimeout (lines 385-387): successDiv.remove()
BannerTimeout(b) ==
  /\ pc = "idle"
  /\ b \in timers
  /\ timers' = timers \ {b}
  /\ banners' = banners \ {b}
  /\ last' = Event("timeout", "", TRUE)
  /\ UNCHANGED << form, env, fields, value, errors, invalid, aria, nodes,
                  cflag, storage, clock, pc, saved, returned >>

Next ==
  \/ \E i \in 1..Len(form) : \E raw \in Typed(form[i]) : Input(i, raw)
  \/ \E i \in 1..Len(form) : Blur(i)
  \/ Submit
  \/ HandleValidFormSubmit
  \/ \E b \in timers : BannerTimeout(b)

Spec == Init /\ [][Next]_vars

(***************************************************************************)
(* The submission store on its own: saveFormData called over and over on   *)
(* a store that starts empty                                               *)
(***************************************************************************)
MaxSaves == 12

StoreForm == << Field("cep", "text", FALSE, FALSE, NoAttr, "divField") >>

InitStore ==
  /\ InitWith(StoreForm, Env0)
  /\ storage = [x \in {} |-> <<>>]

\* saveFormData(data) (lines 344-368), for the first n calls
SaveCallUpTo(data, n) ==
  /\ pc = "idle"
  /\ clock < Clock0 + n
  /\ storage' = saveFormData(storage, data, clock)
  /\ clock' = clock + 1
  /\ saved' = Append(saved, WithTimestamp(data, clock))
  /\ last' = Event("save", "", TRUE)
  /\ UNCHANGED << form, env, fields, value, errors, invalid, aria, nodes,
                  cflag, banners, timers, pc, returned >>

SaveCall(data) == SaveCallUpTo(data, MaxSaves)

NextStore == \E data \in ValidDatas(form, env) : SaveCall(data)

SpecStore == InitStore /\ [][NextStore]_vars

(***************************************************************************)
(* The success banners: one small form submitted more than once, each      *)
(* listener running to completion and each pending timer firing in the end *)
(***************************************************************************)
MaxBannerSubmits == 2

\* the readings of the clock at the submissions of a page view
BannerIds == Clock0 .. (Clock0 + MaxBannerSubmits - 1)

InitBanner == InitWith(StoreForm, Env0)

NextBanner ==
  \/ \E i \in 1..Len(form) : \E raw \in Typed(form[i]) : Input(i, raw)
  \/ \E i \in 1..Len(form) : Blur(i)
  \/ SubmitUpTo(MaxBannerSubmits)
  \/ HandleValidFormSubmit
  \/ \E b \in timers : BannerTimeout(b)

\* a listener that has started runs to its end, and a timer that is due
\* fires
FairBanner ==
  /\ WF_vars(HandleValidFormSubmit)
  /\ \A b \in BannerIds : WF_vars(BannerTimeout(b))

SpecBanner == InitBanner /\ [][NextBanner]_vars /\ FairBanner

(***************************************************************************)
(* showFieldError and clearFieldError called from outside the listeners,   *)
(* with the identifier of a field of the form or with one that no element  *)
(* of the form carries                                                     *)
(***************************************************************************)
UnknownId == "inexistente"

CallIds(frm) == FieldIds(frm) \cup {UnknownId}

CallMessages == {MsgRequired, MsgCep}

InitPresenter ==
  \E frm \in {FormOwnContainers, FormSharedContainer} : InitWith(frm, Env0)

\* showFieldError(fieldId, message) (lines 268-293)
ShowErrorCall(id, message) ==
  /\ pc = "idle"
  /\ SetDisp(showFieldError(Disp, fields, form, id, message))
  /\ returned' = Undefined
  /\ last' = Event("showError", id, TRUE)
  /\ UNCHANGED << form, env, fields, value, storage, clock, banners, timers,
                  pc, saved >>

\* clearFieldError(fieldId) (lines 299-317)
ClearErrorCall(id) ==
  /\ pc = "idle"
  /\ SetDisp(clearFieldError(Disp, fields, form, id))
  /\ returned' = Undefined
  /\ last' = Event("clearError", id, TRUE)
  /\ UNCHANGED << form, env, fields, value, storage, clock, banners, timers,
                  pc, saved >>

NextPresenter ==
  \/ \E id \in CallIds(form) : \E m \in CallMessages : ShowErrorCall(id, m)
  \/ \E id \in CallIds(form) : ClearErrorCall(id)

SpecPresenter == InitPresenter /\ [][NextPresenter]_vars

(***************************************************************************)
(* The methods of the validator that read and erase what is persisted,     *)
(* called in any order between saves and edits of the field, on a page     *)
(* that starts with or without an earlier history                          *)
(***************************************************************************)
MaxApiSaves == 3

InitApi == InitWith(StoreForm, Env0)

\* clearSubmissionHistory() (lines 421-425)
ClearHistoryCall ==
  /\ pc = "idle"
  /\ storage' = clearSubmissionHistory(storage)
  /\ returned' = Undefined
  /\ last' = Event("clearHistory", "", TRUE)
  /\ UNCHANGED << form, env, fields, value, errors, invalid, aria, nodes,
                  cflag, clock, banners, timers, pc, saved >>

\* getSubmissionHistory() (lines 412-416)
HistoryCall ==
  /\ pc = "idle"
  /\ returned' = Returned(getSubmissionHistory(storage))
  /\ last' = Event("history", "", TRUE)
  /\ UNCHANGED << form, env, fields, value, errors, invalid, aria, nodes,
                  cflag, storage, clock, banners, timers, pc, saved >>

\* loadFormData() (lines 393-406)
LoadCall ==
  /\ pc = "idle"
  /\ value' = loadFormData(storage, fields, value)
  /\ returned' = Undefined
  /\ last' = Event("load", "", TRUE)
  /\ UNCHANGED << form, env, fields, errors, invalid, aria, nodes, cflag,
                  storage, clock, banners, timers, pc, saved >>

NextApi ==
  \/ \E data \in ValidDatas(form, env) : SaveCallUpTo(data, MaxApiSaves)
  \/ ClearHistoryCall
  \/ HistoryCall
  \/ LoadCall
  \/ \E i \in 1..Len(form) : \E raw \in Typed(form[i]) : Input(i, raw)

SpecApi == InitApi /\ [][NextApi]_vars

(***************************************************************************)
(* The rules of the registry on their own: a form of one field that is     *)
(* neither required nor bounded in length, whose value attribute holds the *)
(* input, in each time zone; the field's rule is called on the value, as   *)
(* validateField calls it, and the field is validated                      *)
(***************************************************************************)
DigitChar(n) == CHOOSE c \in Digits : DigitVal(c) = n % 10

\* the digits 1234567890123... up to length n
DigitRun(n) == [k \in 1..n |-> DigitChar(k)]

MaxDigitRun == 12

CpfBases == {<<"5", "2", "9", "9", "8", "2", "2", "4", "7">>, <<"1", "2", "3", "4", "5", "6", "7", "8", "9">>, <<"9", "8", "7", "6", "5", "4", "3", "2", "1">>}

CpfInputs ==
  {<<>>, <<"a", "b", "c">>, <<"5", "2", "9", ".", "9", "8", "2", ".", "2", "4", "7", "-", "2", "5">>, <<"1", "1", "1", ".", "1", "1", "1", ".", "1", "1", "1", "-", "1", "1">>}
    \cup {DigitRun(n) : n \in {10, 12}}
    \cup {[k \in 1..11 |-> c] : c \in Digits}
    \cup {base \o <<a, b>> : base \in CpfBases, a \in Digits, b \in Digits}

TelefoneInputs ==
  {<<"a", "b", "c">>, <<"-">>, <<"(", "1", "1", ")", " ", "9", "1", "2", "3", "4", "-", "5", "6", "7", "8">>, <<"(", "1", "1", ")", " ", "1", "2", "3", "4", "-", "5", "6", "7">>}
    \cup {DigitRun(n) : n \in 0..MaxDigitRun}

CepInputs ==
  {<<"a", "b", "c">>, <<"-">>, <<"0", "1", "3", "1", "0", "-", "1", "0", "0">>, <<"0", "1", "3", "1", "-", "1", "0", "0">>}
    \cup {DigitRun(n) : n \in 0..MaxDigitRun}

NascInputs ==
  {<<>>, <<"a", "b", "c">>, <<"2", "0", "2", "7", "-", "0", "1", "-", "0", "1">>, <<"2", "0", "2", "6", "-", "1", "1", "-", "0", "2">>, <<"2", "0", "2", "6", "-", "1", "1", "-", "0", "1">>, <<"2", "0", "2", "6", "-", "1", "0", "-", "3", "1">>, <<"2", "0", "0", "9", "-", "0", "1", "-", "0", "1">>, <<"2", "0", "0", "8", "-", "1", "2", "-", "3", "1">>, <<"2", "0", "0", "8", "-", "0", "1", "-", "0", "1">>, <<"2", "0", "1", "0", "-", "0", "6", "-", "1", "5">>, <<"2", "0", "0", "0", "-", "0", "1", "-", "0", "1">>}

RuleInputs(id) ==
  IF id = "cpf" THEN CpfInputs
  ELSE IF id = "telefone" THEN TelefoneInputs
  ELSE IF id = "cep" THEN CepInputs
  ELSE IF id = "nasc" THEN NascInputs
  ELSE EstadoValues

RuleKinds ==
  { <<"cpf", "text">>, <<"telefone", "tel">>, <<"cep", "text">>,
    <<"nasc", "date">>, <<"estado", "select-one">> }

RuleForms ==
  { << [Field(k[1], k[2], FALSE, FALSE, NoAttr, "divField")
          EXCEPT !.defaultValue = v] >> :
      k \in RuleKinds, v \in UNION {RuleInputs(j[1]) : j \in RuleKinds} }

\* the page runs west of Greenwich, where the UTC date is the local one or
\* the next, or east of it, where the UTC date is the local one or the one
\* before
Envs ==
  { [today |-> Env0.today, west |-> w[1], utcAhead |-> w[2]] :
      w \in { <<TRUE, 0>>, <<TRUE, 1>>, <<FALSE, 0>>, <<FALSE, 0 - 1>> } }

InitRules ==
  /\ \E frm \in RuleForms : \E e \in Envs :
       /\ frm[1].defaultValue \in RuleInputs(frm[1].id)
       /\ InitWith(frm, e)
  /\ storage = [x \in {} |-> <<>>]

\* a call of the entry of this.validators that validateField selects for
\* the field, on the field's value
RuleCall(i) ==
  /\ pc = "idle"
  /\ LET id    == form[i].id
         error == KindError(form[i], value[id], env)
     IN /\ returned' = Returned(error)
        /\ last' = Event("rule", id, ~IsError(error))
  /\ UNCHANGED << form, env, fields, value, errors, invalid, aria, nodes,
                  cflag, storage, clock, banners, timers, pc, saved >>

NextRules ==
  \/ \E i \in 1..Len(form) : RuleCall(i)
  \/ \E i \in 1..Len(form) : Blur(i)

SpecRules == InitRules /\ [][NextRules]_vars

\* the one field of a form of SpecRules and its value
RuleField == form[1].id

RuleValue == value[form[1].id]

RuleDigits == StripNonDigits(RuleValue)

\* the rule of kind id has just been called on the field's value
RuleCalled(id) == last.op = "rule" /\ last.field = id /\ RuleField = id

(***************************************************************************)
(* Properties                                                              *)
(***************************************************************************)
History == StoredSubmissions(storage)

\* the fields whose current value fails validation
Failing == {form[i].id : i \in {j \in 1..Len(form) :
                                  IsError(FieldError(form[j], value[form[j].id], env))}}

Min(a, b) == IF a < b THEN a ELSE b

\* C1: localStorage is written only by the submit listener, after a
\* validation pass that found every field of the form valid, and at the
\* moment of the write this.errors has no entry for any field.
C1_WriteOnlyAfterValidPass ==
  [][storage' # storage =>
       /\ pc = "handleValid"
       /\ last.op = "submit" /\ last.ok
       /\ Failing = {}
       /\ DOMAIN errors = {}]_vars

C1_Witness ==
  /\ last.op = "saved"
  /\ Len(form) > 1
  /\ Len(History) > 0
  /\ History[Len(History)].timestamp >= Clock0
  /\ CurrentKey \in DOMAIN storage

\* C2: after k saves on a store that started empty, the persisted history
\* holds exactly the last min(k, 10) saved records in the order they were
\* saved, and it never holds more than 10.
C2_HistoryIsLastTenSaved ==
  LET k == Len(saved)
      n == Len(History)
  IN /\ n <= 10
     /\ n = Min(k, 10)
     /\ \A j \in 1..n : History[j] = saved[k - n + j]

C2_Witness ==
  /\ Len(saved) > 10
  /\ Len(History) = 10
  /\ History[1] = saved[Len(saved) - 9]
  /\ History[1] # saved[1]

\* C3: the write of a valid submit appends exactly one entry, the form's
\* field values at submit time with a timestamp, to the history (the oldest
\* entry leaving a full history), makes those values the current snapshot,
\* resets every field and leaves this.errors empty.
C3_ValidSubmitEffect ==
  [][pc = "handleValid" /\ pc' = "idle" =>
       LET old == History
           new == StoredSubmissions(storage')
           gone == Len(old) + 1 - Len(new)
       IN /\ Len(new) = Min(Len(old) + 1, 10)
          /\ new[Len(new)] = WithTimestamp(value, clock)
          /\ \A j \in 1..(Len(new) - 1) : new[j] = old[j + gone]
          /\ CurrentKey \in DOMAIN storage'
          /\ storage'[CurrentKey] = value
          /\ value' = Defaults(form)
          /\ DOMAIN errors' = {}]_vars

C3_Witness ==
  /\ last.op = "saved"
  /\ Len(form) > 1
  /\ Len(History) = 10
  /\ History[10].timestamp = Clock0
  /\ History[10]["cep"] # <<>>
  /\ History[9].timestamp = 10
  /\ value = Defaults(form)

\* C4: a submit event with a failing field leaves localStorage and every
\* field value as they were, shows no success banner, starts no timer, ends
\* the listener, and keeps the error each failing field got in this pass.
C4_InvalidSubmitFrame ==
  [][Submit /\ Failing # {} =>
       /\ storage' = storage
       /\ value' = value
       /\ banners' = banners
       /\ timers' = timers
       /\ clock' = clock
       /\ pc' = "idle"
       /\ DOMAIN errors' = Failing
       /\ \A id \in Failing :
            errors'[id] = FieldError(FieldById(form, id), value[id], env)]_vars

C4_Witness ==
  /\ last.op = "submit" /\ ~last.ok
  /\ pc = "idle"
  /\ Len(form) > 1
  /\ Cardinality(DOMAIN errors) = 1
  /\ Len(History) = 10

\* C5: right after the validation pass of a submit event the fields with
\* an entry in this.errors are exactly the fields whose value fails
\* validation, whatever was blurred or edited before, and the form is
\* judged valid iff there is none.
C5_PassErrorsAreFailingFields ==
  last.op = "submit" =>
    /\ DOMAIN errors = Failing
    /\ last.ok = (Failing = {})
    /\ (pc = "handleValid") = (Failing = {})

C5_Witness ==
  /\ last.op = "submit"
  /\ Cardinality(Failing) >= 2
  /\ Cardinality(DOMAIN errors) >= 2

\* the field the last event was about, its value and its container
LastField == FieldById(form, last.field)

LastValue == value[last.field]

LastParent == LastField.parent

\* C6: validateField checks required first, then at most one kind rule,
\* then minlength, and stops at the first failure: a required field whose
\* trimmed value is empty gets the required message whatever its kind and
\* minlength; a failing kind rule is never replaced by the minlength
\* message; a field never has more than one message.
C6_FirstFailureWins ==
  last.op = "blur" =>
    LET f == LastField
        v == LastValue
        requiredFails == f.required /\ Trim(v) = <<>>
        kind == KindError(f, v, env)
    IN /\ requiredFails =>
            /\ last.field \in DOMAIN errors
            /\ errors[last.field] = MsgRequired
       /\ (~requiredFails /\ Len(v) > 0 /\ IsError(kind)) =>
            /\ last.field \in DOMAIN errors
            /\ errors[last.field] = kind
       /\ last.field \in DOMAIN errors =>
            /\ \/ requiredFails /\ errors[last.field] = MsgRequired
               \/ ~requiredFails /\ errors[last.field] = kind
               \/ /\ ~requiredFails /\ ~IsError(kind) /\ f.hasMinlength
                  /\ errors[last.field] = MsgMinLength(ParseInt(f.minlength))
            /\ nodes[LastParent] = << errors[last.field] >>

C6_Witness ==
  /\ last.op = "blur"
  /\ LastField.type = "email"
  /\ LastField.hasMinlength
  /\ Len(LastValue) < ParseInt(LastField.minlength)
  /\ Len(LastValue) > 0
  /\ last.field \in DOMAIN errors
  /\ errors[last.field] = MsgEmail

\* C7: an input event on a field with a recorded error removes the error
\* from this.errors and from the display at once, whatever the new value;
\* on a field with no recorded error it changes neither.  An empty required
\* field that was blurred shows exactly the required message.
C7_InputClearsError ==
  /\ [][\A i \in 1..Len(form) : \A raw \in Typed(form[i]) :
          Input(i, raw) =>
            LET id == form[i].id
                parent == form[i].parent
            IN IF id \in DOMAIN errors
                 THEN /\ id \notin DOMAIN errors'
                      /\ id \notin invalid'
                      /\ nodes'[parent] = <<>>
                      /\ parent \notin cflag'
                      /\ \A other \in DOMAIN errors \ {id} :
                           other \in DOMAIN errors' /\ errors'[other] = errors[other]
                 ELSE /\ errors' = errors
                      /\ invalid' = invalid
                      /\ aria' = aria
                      /\ nodes' = nodes
                      /\ cflag' = cflag]_vars
  /\ [](last.op = "blur" /\ LastField.required /\ LastValue = <<>> =>
          /\ errors[last.field] = MsgRequired
          /\ nodes[LastParent] = << MsgRequired >>)

C7_Witness ==
  /\ last.op = "input" /\ last.ok
  /\ LastField.required
  /\ last.field \in Failing
  /\ last.field \notin DOMAIN errors
  /\ nodes[LastParent] = <<>>

\* C8: a blur event validates the field's current value: on failure
\* this.errors holds the failing rule's message for the field and the
\* message is shown; on success the field's entry is gone and its display
\* cleared.  A blur writes nothing to localStorage.
C8_BlurValidates ==
  /\ [](last.op = "blur" =>
          LET error == FieldError(LastField, LastValue, env)
          IN IF IsError(error)
               THEN /\ ~last.ok
                    /\ last.field \in DOMAIN errors
                    /\ errors[last.field] = error
                    /\ last.field \in invalid
                    /\ aria[last.field] = "true"
                    /\ nodes[LastParent] = << error >>
                    /\ LastParent \in cflag
               ELSE /\ last.ok
                    /\ last.field \notin DOMAIN errors
                    /\ last.field \notin invalid
                    /\ aria[last.field] = "false"
                    /\ nodes[LastParent] = <<>>
                    /\ LastParent \notin cflag)
  /\ [][(\E i \in 1..Len(form) : Blur(i)) => storage' = storage]_vars

C8_Witness ==
  /\ last.op = "blur"
  /\ last.field = "email"
  /\ last.field \in DOMAIN errors
  /\ errors[last.field] = MsgEmail
  /\ nodes[LastParent] = << MsgEmail >>
  /\ "cep" \in DOMAIN errors
  /\ LastParent = FieldById(form, "cep").parent

Messages ==
  {MsgRequired, MsgEmail, MsgCep, MsgMinLength(3)}

\* C9: showFieldError and clearFieldError are idempotent: a second call in
\* a row, with the same field and message, leaves this.errors, the field's
\* flag, its error node and its container's flag as the first call left
\* them, and no field ever has more than one error node.
C9_PresenterIdempotent ==
  /\ \A c \in Containers(form) : Len(nodes[c]) <= 1
  /\ \A id \in fields :
       LET cleared == clearFieldError(Disp, fields, form, id)
           parent == FieldById(form, id).parent
       IN /\ clearFieldError(cleared, fields, form, id) = cleared
          /\ cleared.nodes[parent] = <<>>
          /\ \A m \in Messages :
               LET shown == showFieldError(Disp, fields, form, id, m)
               IN /\ showFieldError(shown, fields, form, id, m) = shown
                  /\ shown.nodes[parent] = << m >>
                  /\ shown.errors[id] = m

C9_Witness ==
  /\ last.op = "blur"
  /\ last.field \in DOMAIN errors
  /\ Cardinality(DOMAIN errors) >= 2
  /\ showFieldError(Disp, fields, form, last.field, errors[last.field]) = Disp
  /\ clearFieldError(Disp, fields, form, last.field) # Disp

MaxMinLength == 4

\* C10 as stated: the minlength rule fails iff the value is shorter than n,
\* the empty value included.
C10_AsClaimed ==
  \A i \in 1..Len(form) : \A n \in 0..MaxMinLength :
    IsError(MinLengthValidator(value[form[i].id], n))
      <=> Len(value[form[i].id]) < n

\* C10: the minlength rule fails iff the value is not empty and shorter
\* than n, for every n >= 0; "abc" passes and "ab" fails for n = 3.
C10_MinLengthRule ==
  /\ \A i \in 1..Len(form) : \A n \in 0..MaxMinLength :
       LET v == value[form[i].id]
           r == MinLengthValidator(v, n)
       IN /\ IsError(r) <=> (Len(v) > 0 /\ Len(v) < n)
          /\ IsError(r) => r = MsgMinLength(n)
  /\ ~IsError(MinLengthValidator(<<"a", "b", "c">>, 3))
  /\ IsError(MinLengthValidator(<<"a", "b">>, 3))

C10_Witness ==
  /\ last.op = "blur"
  /\ LastField.hasMinlength
  /\ LastValue = <<"a", "b">>
  /\ last.field \in DOMAIN errors
  /\ errors[last.field] = MsgMinLength(3)


\* C11: each of the ten strings of eleven identical digits fails the cpf
\* rule with the 'invalid' message, although both of its weighted check
\* digits equal the repeated digit
C11_RepeatedDigitsFail ==
  (RuleCalled("cpf") /\ AllSameDigit(RuleValue)) =>
     /\ returned.value = MsgCpfInvalid
     /\ ~last.ok
     /\ CheckDigit(RuleValue, 9, 11) = DigitVal(RuleValue[1])
     /\ CheckDigit(RuleValue, 10, 12) = DigitVal(RuleValue[1])

C11_Witness ==
  /\ RuleCalled("cpf")
  /\ RuleValue = [k \in 1..11 |-> "7"]
  /\ returned.value = MsgCpfInvalid


\* the two check digits of the digits of the field's value, written out
C12_R1 ==
  LET d(i) == DigitVal(RuleDigits[i])
      r    == ((d(1) * 10 + d(2) * 9 + d(3) * 8 + d(4) * 7 + d(5) * 6
                  + d(6) * 5 + d(7) * 4 + d(8) * 3 + d(9) * 2) * 10) % 11
  IN IF r \in {10, 11} THEN 0 ELSE r

C12_R2 ==
  LET d(i) == DigitVal(RuleDigits[i])
      r    == ((d(1) * 11 + d(2) * 10 + d(3) * 9 + d(4) * 8 + d(5) * 7
                  + d(6) * 6 + d(7) * 5 + d(8) * 4 + d(9) * 3 + d(10) * 2)
                 * 10) % 11
  IN IF r \in {10, 11} THEN 0 ELSE r

\* C12: a value whose digits are eleven and not all identical passes the
\* cpf rule iff its tenth digit is r1 and its eleventh is r2, where
\* r1 = ((sum of digit[i]*(11-i), i = 1..9) * 10) mod 11 and
\* r2 = ((sum of digit[i]*(12-i), i = 1..10) * 10) mod 11, each replaced by
\* 0 when it is 10 or 11; otherwise it fails with the 'invalid' message;
\* 52998224725 passes
C12_CheckDigits ==
  (RuleCalled("cpf") /\ Len(RuleDigits) = 11 /\ ~AllSameDigit(RuleDigits)) =>
     /\ last.ok <=> /\ DigitVal(RuleDigits[10]) = C12_R1
                    /\ DigitVal(RuleDigits[11]) = C12_R2
     /\ returned.value = IF last.ok THEN null ELSE MsgCpfInvalid
     /\ RuleDigits = <<"5", "2", "9", "9", "8", "2", "2", "4", "7", "2", "5">> => last.ok

C12_Witness ==
  /\ RuleCalled("cpf")
  /\ RuleValue = <<"5", "2", "9", ".", "9", "8", "2", ".", "2", "4", "7", "-", "2", "5">>
  /\ returned.value = null


\* the telefone rule passes iff ten or eleven digits are left, for every
\* value, the empty one included
C13_AsClaimed ==
  RuleCalled("telefone") =>
     /\ last.ok <=> Len(RuleDigits) \in {10, 11}
     /\ returned.value = IF last.ok THEN null ELSE MsgTelefone

\* C13: the telefone rule passes the empty value; a value that is not
\* empty passes iff ten or eleven digits are left once every other
\* character is removed, and fails with 'must have 10 or 11 digits'
\* otherwise, also when it has no digit at all
C13_TelefoneRule ==
  RuleCalled("telefone") =>
     /\ last.ok <=> (RuleValue = <<>> \/ Len(RuleDigits) \in {10, 11})
     /\ returned.value = IF last.ok THEN null ELSE MsgTelefone

C13_Witness ==
  /\ RuleCalled("telefone")
  /\ RuleValue = <<>>
  /\ Len(RuleDigits) = 0
  /\ returned.value = null

\* the cep rule passes iff eight digits are left, for every value, the
\* empty one included
C14_AsClaimed ==
  RuleCalled("cep") =>
     /\ last.ok <=> Len(RuleDigits) = 8
     /\ returned.value = IF last.ok THEN null ELSE MsgCep

\* C14: the cep rule passes the empty value; a value that is not empty
\* passes iff exactly eight digits are left once every other character is
\* removed, and fails with 'must have 8 digits' otherwise, also when it
\* has no digit at all
C14_CepRule ==
  RuleCalled("cep") =>
     /\ last.ok <=> (RuleValue = <<>> \/ Len(RuleDigits) = 8)
     /\ returned.value = IF last.ok THEN null ELSE MsgCep

C14_Witness ==
  /\ RuleCalled("cep")
  /\ RuleValue = <<>>
  /\ Len(RuleDigits) = 0
  /\ returned.value = null


\* C15: a birth date after today fails the nasc rule with the 'cannot be
\* in the future' message, and a birth date whose year is less than 18
\* before today's fails it with the 'must be at least 18' message
C15_AsClaimed ==
  (RuleCalled("nasc") /\ ParseDate(RuleValue) # InvalidDate) =>
     /\ DateLess(env.today, ParseDate(RuleValue)) =>
          returned.value = MsgNascFuture
     /\ env.today.y - ParseDate(RuleValue).y < 18 =>
          returned.value = MsgNascAge


\* the data of a record of the history: the record without its timestamp
DataOf(record) == [k \in DOMAIN record \ {"timestamp"} |-> record[k]]

SnapshotKept ==
  /\ CurrentKey \in DOMAIN storage <=> CurrentKey \in DOMAIN storage'
  /\ CurrentKey \in DOMAIN storage /\ CurrentKey \in DOMAIN storage' =>
       storage'[CurrentKey] = storage[CurrentKey]

ReadsAndErases ==
  /\ last'.op = "clearHistory" =>
       getSubmissionHistory(storage') = <<>> /\ SnapshotKept
  /\ last'.op = "history" =>
       /\ storage' = storage
       /\ returned'.defined
       /\ returned'.value = (IF SubmissionsKey \in DOMAIN storage
                               THEN storage[SubmissionsKey] ELSE <<>>)

\* clearHistory empties what history returns and keeps the snapshot;
\* history and load leave the store alone; history returns the empty
\* sequence when nothing is persisted; load returns the data of the most
\* recent save, or nothing when no save has happened
C16_AsClaimed ==
  [][/\ ReadsAndErases
     /\ last'.op = "load" =>
          /\ storage' = storage
          /\ Len(saved) = 0 => ~returned'.defined
          /\ Len(saved) > 0 =>
               /\ returned'.defined
               /\ returned'.value = DataOf(saved[Len(saved)])]_vars

\* C16: clearHistory empties what history returns and keeps the snapshot;
\* history and load leave the store alone; history returns the persisted
\* sequence, the empty one when nothing is persisted; load returns nothing
\* in every case: it writes the data of the most recent save into the
\* registered fields, and leaves the fields alone when no save has happened
C16_ReadsAndErases ==
  [][/\ ReadsAndErases
     /\ last'.op = "load" =>
          /\ storage' = storage
          /\ ~returned'.defined
          /\ value' = (IF Len(saved) = 0 THEN value
                       ELSE DataOf(saved[Len(saved)]))]_vars

C16_Witness ==
  /\ last.op = "load"
  /\ Len(saved) > 0
  /\ ~returned.defined
  /\ SubmissionsKey \notin DOMAIN storage
  /\ CurrentKey \in DOMAIN storage
  /\ value = DataOf(saved[Len(saved)])
  /\ value # Defaults(form)


\* the required check and the kind rule of the field validated last give
\* no error, and the field declares a minlength
MinLengthDecides ==
  /\ last.op = "blur"
  /\ LastField.hasMinlength
  /\ ~IsError(RequiredError(LastField, LastValue))
  /\ ~(Len(LastValue) > 0 /\ IsError(KindError(LastField, LastValue, env)))

\* whenever the required check and the kind rule give no error and the
\* field declares a minlength n, the field is reported invalid iff its
\* value is shorter than n, the empty value of a non-required field
\* included
C17_AsClaimed ==
  MinLengthDecides =>
    (~last.ok <=> Len(LastValue) < ParseInt(LastField.minlength))

\* C17: whenever the required check and the kind rule give no error and
\* the field declares a minlength n, validateField reports the field
\* invalid, with the minlength message for n, iff its value is not empty
\* and shorter than n; the empty value of a non-required field is reported
\* valid whatever n is
C17_MinLengthInValidateField ==
  MinLengthDecides =>
    LET n == ParseInt(LastField.minlength)
    IN /\ ~last.ok <=> (Len(LastValue) > 0 /\ Len(LastValue) < n)
       /\ ~last.ok <=> last.field \in DOMAIN errors
       /\ last.field \in DOMAIN errors =>
            errors[last.field] = MsgMinLength(n)

C17_Witness ==
  /\ MinLengthDecides
  /\ ~LastField.required
  /\ ParseInt(LastField.minlength) = 3
  /\ LastValue = <<>>
  /\ last.ok
  /\ last.field \notin DOMAIN errors


\* C18: a successful submit inserts exactly one banner and starts one
\* timer for it; every banner is removed in the end, once, by its own
\* timer and not before the timer fires; no other event removes a banner or
\* cancels a timer
C18_BannerOneShot ==
  /\ [](banners = timers)
  /\ [][/\ last'.op = "saved" =>
             /\ clock \notin banners
             /\ banners' = banners \cup {clock}
             /\ timers' = timers \cup {clock}
        /\ last'.op = "timeout" =>
             \E b \in timers : /\ timers' = timers \ {b}
                               /\ banners' = banners \ {b}
        /\ last'.op \notin {"saved", "timeout"} =>
             banners' = banners /\ timers' = timers
        /\ \A b \in BannerIds :
             (b < clock /\ b \notin banners) => b \notin banners']_vars
  /\ \A b \in BannerIds : (b \in banners) ~> (b \notin banners)

C18_Witness ==
  /\ last.op = "timeout"
  /\ banners = {Clock0 + 1}
  /\ timers = {Clock0 + 1}


\* C19: showFieldError and clearFieldError called with an identifier that
\* is not registered return normally and change nothing: this.errors, the
\* flag of every field, every error node and the flag of every container
\* stay as they were
C19_UnknownFieldNoOp ==
  [][(last'.op \in {"showError", "clearError"} /\ last'.field \notin fields) =>
       /\ errors' = errors
       /\ invalid' = invalid
       /\ aria' = aria
       /\ nodes' = nodes
       /\ cflag' = cflag
       /\ last'.ok
       /\ ~returned'.defined]_vars

C19_Witness ==
  /\ last.op = "showError"
  /\ last.field = UnknownId
  /\ last.field \notin fields
  /\ last.field \notin DOMAIN errors
  /\ DOMAIN errors = {"email"}
  /\ nodes[FieldById(form, "email").parent] = << MsgRequired >>


\* every element of the form has a container of its own
OwnContainers(frm) ==
  \A i, j \in 1..Len(frm) : i # j => frm[i].parent # frm[j].parent

\* C20: in a form whose fields have a container each and distinct
\* identifiers, after any input, blur and submit events, a field has an
\* entry in this.errors iff it carries is-invalid iff its container holds
\* exactly one error node iff its container carries form-field--error, and
\* the text of that node is the message of the entry
C20_ErrorMapAgreesWithDisplay ==
  OwnContainers(form) =>
    \A i \in 1..Len(form) :
      LET id     == form[i].id
          parent == form[i].parent
      IN /\ id \in DOMAIN errors <=> id \in invalid
         /\ id \in DOMAIN errors <=> Len(nodes[parent]) = 1
         /\ id \in DOMAIN errors <=> parent \in cflag
         /\ id \in DOMAIN errors <=> aria[id] = "true"
         /\ id \in DOMAIN errors => nodes[parent] = << errors[id] >>
         /\ id \notin DOMAIN errors => nodes[parent] = <<>>

C20_Witness ==
  /\ OwnContainers(form)
  /\ Len(form) = 3
  /\ last.op = "input"
  /\ last.ok
  /\ DOMAIN errors = {"email"}
  /\ invalid = {"email"}
  /\ nodes[FieldById(form, "email").parent] = << MsgEmail >>
  /\ nodes[FieldById(form, "nome").parent] = <<>>


\* container p shows an error node whose text is m
HasNode(nds, p, m) == \E k \in 1..Len(nds[p]) : nds[p][k] = m

\* C21: an input or blur event on a field, and showFieldError or
\* clearFieldError for it, leave alone every other field that has an
\* error: its entry in this.errors, its error node and the class
\* form-field--error of its container stay, also when the two fields
\* share a container
C21_AsClaimed ==
  [][\A b \in fields :
       (/\ last'.op \in {"input", "blur", "showError", "clearError"}
        /\ last'.field # b
        /\ b \in DOMAIN errors) =>
         LET parent == FieldById(form, b).parent
         IN /\ b \in DOMAIN errors'
            /\ errors'[b] = errors[b]
            /\ HasNode(nodes, parent, errors[b]) =>
                 HasNode(nodes', parent, errors[b])
            /\ parent \in cflag => parent \in cflag']_vars


\* C22: no input, blur or submit event puts the message of the estado
\* rule into this.errors or on the page: the rule fails only on the empty
\* value, and validateField runs it only on a value that is not empty; an
\* empty required select gets the required message and an empty select
\* that is not required is reported valid
C22_EstadoMessageNeverShown ==
  /\ \A id \in DOMAIN errors : errors[id] # MsgEstado
  /\ \A c \in Containers(form) : ~HasNode(nodes, c, MsgEstado)
  /\ \A v \in EstadoValues : IsError(EstadoValidator(v)) <=> v = <<>>
  /\ (last.op = "blur" /\ last.field = "estado" /\ LastValue = <<>>) =>
       IF LastField.required
         THEN /\ ~last.ok
              /\ last.field \in DOMAIN errors
              /\ errors[last.field] = MsgRequired
         ELSE /\ last.ok
              /\ last.field \notin DOMAIN errors

C22_Witness ==
  /\ last.op = "blur"
  /\ last.field = "estado"
  /\ LastField.type = "select-one"
  /\ ~LastField.required
  /\ LastValue = <<>>
  /\ EstadoValidator(LastValue) = MsgEstado
  /\ last.ok
  /\ errors = EmptyMap

====
